---- MODULE Spec2Model ----
(***************************************************************************)
(* Model of streamlit_app.py: the two memoized MET-API clients             *)
(* (search_met_artworks, get_artwork_details) and the render pass          *)
(* (main, display_artworks, display_example_artworks).                     *)
(*                                                                         *)
(* Time is wall-clock seconds.  An HTTP exchange is an input: the response *)
(* the endpoint gives to one request.  Output to the page (st.error,       *)
(* st.warning, progress, separators ...) and requests sent are recorded,   *)
(* in program order, in the trace of the operation.                        *)
(***************************************************************************)
EXTENDS Integers, Sequences, FiniteSets, TLC

\* ---------------------------------------------------------------- constants
TTL == 3600            \* @st.cache_data(ttl=3600)
DefaultLimit == 20     \* def search_met_artworks(query, limit=20)
MaxFetch == 6          \* artwork_ids[:6]
ProgressDen == 6       \* progress_bar.progress((i + 1) / 6)

\* ------------------------------------------------------------------- bounds
MaxTicks == 2          \* the clock is advanced at most this many times
MaxCalls == 3          \* direct calls of the clients in one behaviour of SpecCache
MaxWide == 2           \* direct calls of the clients in one behaviour of SpecApi
NumIds == 3            \* object identifiers 1..NumIds

TickLen == TTL \div 2
Ids == 1..NumIds

Min(a, b) == IF a < b THEN a ELSE b
Max(a, b) == IF a > b THEN a ELSE b

\* ------------------------------------------------------------ page / trace
\* One entry of the trace of an operation: e is the kind of step, q a text
\* argument (query or message), n a numeric argument (id, limit, status ...).
Ev(e, q, n) == [e |-> e, q |-> q, n |-> n]

Count(tr, kinds) == Cardinality({i \in 1..Len(tr) : tr[i].e \in kinds})

HttpKinds == {"http_search", "http_detail"}
NoticeKinds == {"error", "warning", "info"}

\* ------------------------------------------------------------ JSON values
\* Optional values (Python None / a value): <<>> is None, <<v>> is v.
None == <<>>
Some(v) == <<v>>

\* A JSON object is a function from the keys that are present.
EmptyObj == [k \in {} |-> ""]
Has(obj, key) == key \in DOMAIN obj

\* value of the objectIDs field: JSON null or a list of identifiers
JsonNull == [null |-> TRUE, list |-> <<>>]
JsonList(l) == [null |-> FALSE, list |-> l]

\* ------------------------------------------------------------ HTTP inputs
\* kind "exception": requests.get raised (transport error, timeout).
\* kind "response": a response with a status; valid says whether
\* response.json() parses; json is the parsed body.
Exception == [kind |-> "exception", status |-> 0, valid |-> FALSE, json |-> EmptyObj]
Response(status, valid, json) ==
    [kind |-> "response", status |-> status, valid |-> valid, json |-> json]

\* --------------------------------------------------------------- the cache
\* Variant: the decorator is missing, nothing is ever served from the cache.
CacheHit_Never(cache, key, t) == FALSE

\* Variant: only non-empty results are stored.
CachePut_SkipEmpty(cache, key, val, t) ==
    IF val = <<>> THEN cache
    ELSE [k \in DOMAIN cache \cup {key} |->
            IF k = key THEN [val |-> val, ts |-> t] ELSE cache[k]]

\* @st.cache_data(ttl=3600): a map from the call's arguments to the value
\* returned and the time it was stored; an entry is served while it is
\* younger than the ttl.
CacheHit(cache, key, t) == key \in DOMAIN cache /\ t - cache[key].ts < TTL

CachePut(cache, key, val, t) ==
    [k \in DOMAIN cache \cup {key} |->
        IF k = key THEN [val |-> val, ts |-> t] ELSE cache[k]]

\* Ghost record of the direct calls made per key: the most recent call
\* (time, ret) and the most recent call that went to the network (ftime,
\* fret) with the response it got (fresp).
HistPut(hist, key, t, ret, fetched, resp) ==
    [k \in DOMAIN hist \cup {key} |->
        IF k # key THEN hist[k]
        ELSE IF fetched
             THEN [time |-> t, ret |-> ret, ftime |-> t, fret |-> ret, fresp |-> resp]
             ELSE [hist[k] EXCEPT !.time = t, !.ret = ret]]

Snapshot(hist, key) == IF key \in DOMAIN hist THEN Some(hist[key]) ELSE None

\* ------------------------------------------------------ search_met_artworks
\* Variant: the slice is forgotten, the whole list is returned.
PySliceTo_Whole(s, limit) == s

\* object_ids[:limit] with Python's slice semantics (a negative stop counts
\* from the end).
PySliceTo(s, limit) ==
    LET stop == IF limit < 0 THEN Max(Len(s) + limit, 0) ELSE Min(limit, Len(s))
    IN  SubSeq(s, 1, stop)

\* Variant: the status branch returns [] without st.error.
SearchStatusFailure_Silent(req, status) ==
    [ret |-> <<>>, trace |-> <<req>>]

\* except Exception as e: st.error(...); return []
SearchRaised(req) ==
    [ret |-> <<>>, trace |-> <<req, Ev("error", "search_exception", 0)>>]

\* else: st.error(f"... {response.status_code}"); return []
SearchStatusFailure(req, status) ==
    [ret |-> <<>>, trace |-> <<req, Ev("error", "search_status", status)>>]

\* if response.status_code == 200
StatusOk(resp) == resp.status = 200

\* The body of search_met_artworks for one response of the endpoint.
search_body(query, limit, resp) ==
    LET req == Ev("http_search", query, 0)
        raised == SearchRaised(req)
    IN  IF resp.kind = "exception" THEN raised
        ELSE IF StatusOk(resp)
        THEN IF ~resp.valid THEN raised               \* response.json() raises
             ELSE LET object_ids == IF Has(resp.json, "objectIDs")
                                    THEN resp.json["objectIDs"]
                                    ELSE JsonList(<<>>)
                  IN  IF object_ids.null THEN raised  \* None[:limit] raises
                      ELSE [ret |-> PySliceTo(object_ids.list, limit),
                            trace |-> <<req>>]
        ELSE SearchStatusFailure(req, resp.status)

\* The memoized function.  w is the world the call runs in (the two caches
\* and the trace so far), t the time of the call.  A call served from the
\* cache sends no request; what the framework replays on the page for such a
\* call is not recorded.
search_met_artworks(w, t, query, limit, resp) ==
    LET key == <<query, limit>>
        w1 == [w EXCEPT !.trace = Append(@, Ev("search_call", query, limit))]
    IN  IF CacheHit(w.scache, key, t)
        THEN [w |-> w1, ret |-> w.scache[key].val]
        ELSE LET r == search_body(query, limit, resp)
             IN  [w |-> [w1 EXCEPT !.trace = @ \o r.trace,
                                   !.scache = CachePut(@, key, r.ret, t)],
                  ret |-> r.ret]

\* ------------------------------------------------------ get_artwork_details
\* Variant: the exception branch returns None without st.error.
DetailRaised_Silent(req) ==
    [ret |-> None, trace |-> <<req>>]

\* except Exception as e: st.error(...); return None
DetailRaised(req) ==
    [ret |-> None, trace |-> <<req, Ev("error", "detail_exception", 0)>>]

\* else: return None
DetailStatusFailure(req) ==
    [ret |-> None, trace |-> <<req>>]

details_body(object_id, resp) ==
    LET req == Ev("http_detail", "", object_id)
        raised == DetailRaised(req)
    IN  IF resp.kind = "exception" THEN raised
        ELSE IF StatusOk(resp)
        THEN IF ~resp.valid THEN raised               \* response.json() raises
             ELSE [ret |-> Some(resp.json), trace |-> <<req>>]
        ELSE DetailStatusFailure(req)

get_artwork_details(w, t, object_id, resp) ==
    LET w1 == [w EXCEPT !.trace = Append(@, Ev("detail_call", "", object_id))]
    IN  IF CacheHit(w.dcache, object_id, t)
        THEN [w |-> w1, ret |-> w.dcache[object_id].val]
        ELSE LET r == details_body(object_id, resp)
             IN  [w |-> [w1 EXCEPT !.trace = @ \o r.trace,
                                   !.dcache = CachePut(@, object_id, r.ret, t)],
                  ret |-> r.ret]

\* ---------------------------------------------------------- display_artworks
\* Variant: only the presence of the key is tested.
HasImage_KeyOnly(artwork) == "primaryImage" \in DOMAIN artwork

\* Python truthiness of artwork.get('primaryImage'): the key is present and
\* its value is not the empty string.
HasImage(artwork) == Has(artwork, "primaryImage") /\ artwork["primaryImage"] # ""

\* if artwork and artwork.get('primaryImage'): the fetch gave a record, the
\* record is not the empty object, and it has a primary image.
Eligible(fetched) ==
    /\ fetched # None
    /\ fetched[1] # EmptyObj
    /\ HasImage(fetched[1])

\* for i, artwork_id in enumerate(artwork_ids[:6]).  st is the state of the
\* loop: the index i, the world, the artworks kept and (ghost) what every
\* fetch returned.
RECURSIVE FetchLoop(_, _, _, _)
FetchLoop(st, t, srv, ids) ==
    IF st.i >= Len(ids) THEN st
    ELSE LET i == st.i
             artwork_id == ids[i + 1]
             w1 == [st.w EXCEPT !.trace = Append(@, Ev("status_text", "", i + 1))]
             d == get_artwork_details(w1, t, artwork_id, srv.detail[artwork_id])
             w2 == [d.w EXCEPT !.trace = @ \o <<Ev("progress", "", i + 1), Ev("sleep", "", 0)>>]
         IN  FetchLoop([i |-> i + 1,
                        w |-> w2,
                        artworks |-> IF Eligible(d.ret)
                                     THEN Append(st.artworks, d.ret[1])
                                     ELSE st.artworks,
                        fetched |-> Append(st.fetched, d.ret)],
                       t, srv, ids)

\* Variant: the empty result is not tested.
NoResults_Never(artwork_ids) == FALSE

\* Variant: every identifier returned by the search is fetched.
FetchedIds_All(artwork_ids) == artwork_ids

\* Variant: a separator follows every record.
SeparatorAfter_Always(i, n) == TRUE

\* if not artwork_ids
NoResults(artwork_ids) == artwork_ids = <<>>

\* artwork_ids[:6]
FetchedIds(artwork_ids) == PySliceTo(artwork_ids, MaxFetch)

\* if i < len(artworks) - 1: st.markdown("---")
SeparatorAfter(i, n) == i < n - 1

\* for i, artwork in enumerate(artworks): the image (or the fallback text),
\* the fixed fields, and a separator except after the last.  rs is the state
\* of the loop: the index i and the trace so far.
RECURSIVE RenderLoop(_, _)
RenderLoop(rs, artworks) ==
    IF rs.i >= Len(artworks) THEN rs.trace
    ELSE LET i == rs.i
             artwork == artworks[i + 1]
             img == IF HasImage(artwork) THEN Ev("image", "", i) ELSE Ev("image_na", "", i)
             sep == IF SeparatorAfter(i, Len(artworks)) THEN <<Ev("separator", "", i)>> ELSE <<>>
         IN  RenderLoop([i |-> i + 1,
                         trace |-> rs.trace \o <<img, Ev("record", "", i)>> \o sep],
                        artworks)

\* display_artworks(search_term): the result is the world after the call and
\* (ghost) what the search returned, what the fetches returned and the
\* artworks drawn.
display_artworks(w, t, srv, search_term) ==
    LET w0 == [w EXCEPT !.trace = Append(@, Ev("subheader", search_term, 0))]
        s == search_met_artworks(w0, t, search_term, DefaultLimit, srv.search[search_term])
        artwork_ids == s.ret
    IN  IF NoResults(artwork_ids)
        THEN [w |-> [s.w EXCEPT !.trace = Append(@, Ev("warning", "No artworks found", 0))],
              sret |-> artwork_ids, fetched |-> <<>>, rendered |-> <<>>]
        ELSE LET w1 == [s.w EXCEPT !.trace = Append(@, Ev("info", "Found", Len(artwork_ids)))]
                 st == FetchLoop([i |-> 0, w |-> w1, artworks |-> <<>>, fetched |-> <<>>],
                                 t, srv, FetchedIds(artwork_ids))
             IN  IF st.artworks = <<>>
                 THEN [w |-> [st.w EXCEPT !.trace = Append(@, Ev("warning", "No artworks with images found", 0))],
                       sret |-> artwork_ids, fetched |-> st.fetched, rendered |-> <<>>]
                 ELSE [w |-> [st.w EXCEPT !.trace = RenderLoop([i |-> 0, trace |-> @], st.artworks)],
                       sret |-> artwork_ids, fetched |-> st.fetched, rendered |-> st.artworks]

\* display_example_artworks()
display_example_artworks(w) ==
    [w EXCEPT !.trace = Append(@, Ev("static", "", 0))]

\* --------------------------------------------------------------------- main
\* Variant: the term is not deleted from the session state.
SessionDel_Keep(ss) == ss

\* st.session_state: a function from the keys that are set.
SessionSet(ss, val) == [k \in DOMAIN ss \cup {"search_term"} |-> val]
SessionDel(ss) == [k \in DOMAIN ss \ {"search_term"} |-> ss[k]]

\* Lines 81-89: the term to search and the session state left behind.
\* None is Python's None; the empty text is falsy like None.
DetermineTerm(ss, custom_search_btn, custom_search) ==
    IF "search_term" \in DOMAIN ss
    THEN [term |-> Some(ss["search_term"]), ss |-> SessionDel(ss)]
    ELSE IF custom_search_btn /\ custom_search # ""
    THEN [term |-> Some(custom_search), ss |-> ss]
    ELSE IF custom_search # ""
    THEN [term |-> Some(custom_search), ss |-> ss]
    ELSE [term |-> None, ss |-> ss]

\* -------------------------------------------------------------------- state
VARIABLES
    now,        \* wall-clock time, seconds
    scache,     \* cache of search_met_artworks: <<query, limit>> -> [val, ts]
    dcache,     \* cache of get_artwork_details: object_id -> [val, ts]
    shist,      \* ghost: direct calls of search_met_artworks per key
    dhist,      \* ghost: direct calls of get_artwork_details per key
    session,    \* st.session_state
    server,     \* what the two endpoints answer during render passes
    calls,      \* number of direct calls of the clients so far
    last        \* the most recent operation: its inputs, trace and results

vars == <<now, scache, dcache, shist, dhist, session, server, calls, last>>

\* ------------------------------------------------------------------ inputs
Presets == {"flower", "Chinese figure with bird"}
Texts == {"", "cat"}
Clicks == {"none", "flower_btn", "chinese_bird_btn", "search_btn"}
MainQueries == Presets \cup (Texts \ {""})

ApiQueries == {"flower", "cat"}
ApiLimits == {-1, 0, 2, DefaultLimit}
ApiIdLists == {<<1>>, <<3, 1, 2>>}
ErrorStatuses == {404, 500}

\* A list longer than the default limit whose first MaxFetch entries avoid
\* the identifier NumIds and whose later entries are all NumIds.
LongList == [i \in 1..(DefaultLimit + 1) |->
                IF i <= MaxFetch THEN ((i - 1) % (NumIds - 1)) + 1 ELSE NumIds]

CacheKeys == {<<"flower", 2>>, <<"flower", DefaultLimit>>, <<"cat", DefaultLimit>>}
CacheIds == {1, 2}
CacheSearchResponses ==
    {Exception, Response(404, TRUE, EmptyObj),
     Response(200, TRUE, [objectIDs |-> JsonList(<<1>>)]),
     Response(200, TRUE, [objectIDs |-> JsonList(<<3, 1, 2>>)])}
CacheDetailResponses(i) ==
    {Exception, Response(404, TRUE, EmptyObj),
     Response(200, TRUE, [objectID |-> i, primaryImage |-> "img"])}

SearchResponsesOver(lists) ==
    {Exception}
    \cup {Response(st, TRUE, EmptyObj) : st \in ErrorStatuses}
    \cup {Response(200, FALSE, EmptyObj),
          Response(200, TRUE, EmptyObj),
          Response(200, TRUE, [objectIDs |-> JsonNull])}
    \cup {Response(200, TRUE, [objectIDs |-> JsonList(l)]) : l \in lists}

Records(i) ==
    {EmptyObj,
     [objectID |-> i],
     [objectID |-> i, primaryImage |-> ""],
     [objectID |-> i, primaryImage |-> "img"]}

DetailResponses(i) ==
    {Exception}
    \cup {Response(st, TRUE, EmptyObj) : st \in ErrorStatuses}
    \cup {Response(200, FALSE, EmptyObj)}
    \cup {Response(200, TRUE, r) : r \in Records(i)}

\* The answers of the endpoints during render passes: one answer for the
\* query "flower" and the long list for every other query; one kind of
\* answer for object 1 and one for every other object.
DetailKinds == {"exception", "status", "noimage", "emptyimage", "image"}
DetailOf(kind, i) ==
    CASE kind = "exception" -> Exception
      [] kind = "status" -> Response(404, TRUE, EmptyObj)
      [] kind = "noimage" -> Response(200, TRUE, [objectID |-> i])
      [] kind = "emptyimage" -> Response(200, TRUE, [objectID |-> i, primaryImage |-> ""])
      [] OTHER -> Response(200, TRUE, [objectID |-> i, primaryImage |-> "img"])

ListResponse(l) == Response(200, TRUE, [objectIDs |-> JsonList(l)])

FlowerResponses ==
    {Exception, Response(404, TRUE, EmptyObj), Response(200, TRUE, EmptyObj),
     ListResponse(<<NumIds, 1>>)}

Servers ==
    {[search |-> [q \in MainQueries |-> IF q = "flower" THEN r1 ELSE ListResponse(LongList)],
      detail |-> [i \in Ids |-> DetailOf(IF i = 1 THEN k1 ELSE k2, i)]] :
        r1 \in FlowerResponses,
        k1 \in DetailKinds, k2 \in {"image", "noimage", "status"}}

NoServer ==
    [search |-> [q \in MainQueries |-> Exception],
     detail |-> [i \in Ids |-> Exception]]

\* ------------------------------------------------------------------- Init
NoOp ==
    [op |-> "none", time |-> 0, trace |-> <<>>,
     query |-> "", limit |-> 0, id |-> 0, resp |-> Exception,
     sret |-> <<>>, dret |-> None, sprev |-> None, dprev |-> None,
     click |-> "none", text |-> "", view |-> "none",
     fetched |-> <<>>, rendered |-> <<>>]

EmptyMap == [k \in {} |-> 0]

InitState ==
    /\ now = 0
    /\ scache = EmptyMap
    /\ dcache = EmptyMap
    /\ shist = EmptyMap
    /\ dhist = EmptyMap
    /\ session = EmptyMap
    /\ calls = 0
    /\ last = NoOp

Init == InitState /\ server \in Servers

InitApi == InitState /\ server = NoServer

World == [scache |-> scache, dcache |-> dcache, trace |-> <<>>]

\* ---------------------------------------------------------------- actions
\* Time passes.
Tick ==
    /\ now + TickLen <= MaxTicks * TickLen
    /\ now' = now + TickLen
    /\ UNCHANGED <<scache, dcache, shist, dhist, session, server, calls, last>>

\* A direct call search_met_artworks(query, limit); resp is what the search
\* endpoint answers if it is asked.
CallSearch(query, limit, resp) ==
    /\ \E r \in {search_met_artworks(World, now, query, limit, resp)} :
           /\ scache' = r.w.scache
           /\ shist' = HistPut(shist, <<query, limit>>, now, r.ret,
                               Count(r.w.trace, {"http_search"}) > 0, resp)
           /\ last' = [NoOp EXCEPT !.op = "search", !.time = now, !.trace = r.w.trace,
                                   !.query = query, !.limit = limit, !.resp = resp,
                                   !.sret = r.ret,
                                   !.sprev = Snapshot(shist, <<query, limit>>)]
    /\ calls' = calls + 1
    /\ UNCHANGED <<now, dcache, dhist, session, server>>

\* A direct call get_artwork_details(object_id).
CallDetails(object_id, resp) ==
    /\ \E r \in {get_artwork_details(World, now, object_id, resp)} :
           /\ dcache' = r.w.dcache
           /\ dhist' = HistPut(dhist, object_id, now, r.ret,
                               Count(r.w.trace, {"http_detail"}) > 0, resp)
           /\ last' = [NoOp EXCEPT !.op = "details", !.time = now, !.trace = r.w.trace,
                                   !.id = object_id, !.resp = resp,
                                   !.dret = r.ret,
                                   !.dprev = Snapshot(dhist, object_id)]
    /\ calls' = calls + 1
    /\ UNCHANGED <<now, scache, shist, session, server>>

\* One render pass of main(): click is the button pressed in this pass (at
\* most one), custom_search the content of the text field.
Main(click, custom_search) ==
    LET ss1 == IF click = "flower_btn" THEN SessionSet(session, "flower") ELSE session
        ss2 == IF click = "chinese_bird_btn"
               THEN SessionSet(ss1, "Chinese figure with bird") ELSE ss1
        custom_search_btn == click = "search_btn"
        d == DetermineTerm(ss2, custom_search_btn, custom_search)
        search_term == d.term
        searching == search_term # None /\ search_term[1] # ""
    IN  \E r \in {IF searching
                  THEN display_artworks(World, now, server, search_term[1])
                  ELSE [w |-> display_example_artworks(World),
                        sret |-> <<>>, fetched |-> <<>>, rendered |-> <<>>]} :
            /\ session' = d.ss
            /\ scache' = r.w.scache
            /\ dcache' = r.w.dcache
            /\ last' = [NoOp EXCEPT !.op = "main", !.time = now,
                                    !.trace = Append(r.w.trace, Ev("footer", "", 0)),
                                    !.click = click, !.text = custom_search,
                                    !.query = IF searching THEN search_term[1] ELSE "",
                                    !.limit = DefaultLimit,
                                    !.view = IF searching THEN "results" ELSE "static",
                                    !.sret = r.sret, !.fetched = r.fetched,
                                    !.rendered = r.rendered]
            /\ UNCHANGED <<now, shist, dhist, server, calls>>

\* ----------------------------------------------------------- specifications
\* The page: render passes against fixed endpoints, with time passing.
Next ==
    \/ Tick
    \/ \E click \in Clicks, custom_search \in Texts : Main(click, custom_search)

Spec == Init /\ [][Next]_vars

\* The two clients called directly a few times, the endpoints answering
\* anything.
NextApi ==
    \/ Tick
    \/ /\ calls < MaxWide
       /\ \E query \in ApiQueries, limit \in ApiLimits,
             resp \in SearchResponsesOver(ApiIdLists) : CallSearch(query, limit, resp)
    \/ /\ calls < MaxWide
       /\ \E object_id \in Ids : \E resp \in DetailResponses(object_id) :
             CallDetails(object_id, resp)

SpecApi == InitApi /\ [][NextApi]_vars

\* The two clients called repeatedly on a few keys while time passes.
NextCache ==
    \/ Tick
    \/ /\ calls < MaxCalls
       /\ \E key \in CacheKeys, resp \in CacheSearchResponses :
             CallSearch(key[1], key[2], resp)
    \/ /\ calls < MaxCalls
       /\ \E object_id \in CacheIds : \E resp \in CacheDetailResponses(object_id) :
             CallDetails(object_id, resp)

SpecCache == InitApi /\ [][NextCache]_vars


\* ------------------------------------------------------------------ claims
\* The entries of a trace of the given kinds, in order.
Project(tr, kinds) == SelectSeq(tr, LAMBDA ev : ev.e \in kinds)

\* The operation went to the network.
Asked == Count(last.trace, HttpKinds) > 0

\* The two failure kinds of an HTTP exchange: a status other than 200, and a
\* transport or parse exception.
StatusFailure(resp) == resp.kind = "response" /\ resp.status # 200
ExceptionFailure(resp) ==
    resp.kind = "exception" \/ (resp.kind = "response" /\ resp.status = 200 /\ ~resp.valid)
FailureResp(resp) == StatusFailure(resp) \/ ExceptionFailure(resp)

RetEmpty == last.sret = <<>> /\ last.dret = None

FirstN(l, n) == [i \in 1..Min(n, Len(l)) |-> l[i]]

\* The search endpoint was asked and answered 200 with a JSON object.
SearchAnswered200 ==
    /\ last.op = "search"
    /\ Asked
    /\ last.resp.kind = "response" /\ last.resp.status = 200 /\ last.resp.valid

HasIdList(json) == Has(json, "objectIDs") /\ ~json["objectIDs"].null

C1_Body ==
    LET json == last.resp.json
    IN  /\ HasIdList(json) =>
              LET l == json["objectIDs"].list
              IN  /\ last.sret = FirstN(l, last.limit)
                  /\ Len(last.sret) <= last.limit
                  /\ (Len(l) < last.limit => last.sret = l)
        /\ ~Has(json, "objectIDs") => last.sret = <<>>

\* C1 as stated: for every limit, a 200 answer with an identifier list gives
\* the first `limit` entries (length <= limit), an absent list gives [].
C1_Original == SearchAnswered200 => C1_Body

\* C1 amended: for every limit >= 0 a 200 answer with an identifier list
\* gives exactly the first `limit` entries in order (length <= limit, the
\* whole list when it is shorter); for a limit < 0 it gives the list without
\* its last -limit entries; an absent list gives [] for every limit.
C1_FirstLimitEntries ==
    SearchAnswered200 =>
        /\ last.limit >= 0 => C1_Body
        /\ last.limit < 0 =>
              LET json == last.resp.json
              IN  /\ HasIdList(json) =>
                        last.sret = FirstN(json["objectIDs"].list,
                                           Len(json["objectIDs"].list) + last.limit)
                  /\ ~Has(json, "objectIDs") => last.sret = <<>>

\* The list is longer than a positive limit and was cut to it.
C1_Witness ==
    /\ SearchAnswered200
    /\ HasIdList(last.resp.json)
    /\ last.limit > 0
    /\ Len(last.resp.json["objectIDs"].list) > last.limit
    /\ Len(last.sret) = last.limit

\* C2: a status other than 200 from the search endpoint gives [], exactly
\* one notice (an error) and exactly one request.
C2_NonOkSearch ==
    (last.op = "search" /\ Asked /\ StatusFailure(last.resp)) =>
        /\ last.sret = <<>>
        /\ Count(last.trace, {"error"}) = 1
        /\ Count(last.trace, NoticeKinds) = 1
        /\ Count(last.trace, HttpKinds) = 1

C2_Witness ==
    /\ last.op = "search" /\ Asked /\ last.resp.kind = "response" /\ last.resp.status = 500
    /\ last.sret = <<>>
    /\ Project(last.trace, {"error"}) = <<Ev("error", "search_status", 500)>>

\* C6 as stated: for both calls and both failure kinds the call emits a
\* notice, returns empty/absent and sends one request only.
C6_Original ==
    (last.op \in {"search", "details"} /\ Asked /\ FailureResp(last.resp)) =>
        /\ Count(last.trace, NoticeKinds) >= 1
        /\ RetEmpty
        /\ Count(last.trace, HttpKinds) = 1

\* C6 amended: for both calls and both failure kinds the call returns
\* empty/absent and sends one request only; it emits exactly one error
\* notice, except get_artwork_details on a status other than 200, which
\* emits none.
C6_FailureHandled ==
    (last.op \in {"search", "details"} /\ Asked /\ FailureResp(last.resp)) =>
        /\ RetEmpty
        /\ Count(last.trace, HttpKinds) = 1
        /\ Count(last.trace, NoticeKinds) =
              (IF last.op = "details" /\ StatusFailure(last.resp) THEN 0 ELSE 1)
        /\ Count(last.trace, {"error"}) = Count(last.trace, NoticeKinds)

\* get_artwork_details hit an exception and said so.
C6_Witness ==
    /\ last.op = "details" /\ Asked /\ ExceptionFailure(last.resp)
    /\ last.dret = None
    /\ Count(last.trace, {"error"}) = 1

\* The record of the earlier direct calls with the key of the last call.
Prev == IF last.op = "search" THEN last.sprev ELSE last.dprev

\* C3 as stated: a search call made less than one hour after the previous
\* call with the same key sends no request and returns what that call
\* returned.
C3_Original ==
    (last.op = "search" /\ last.sprev # None /\ last.time - last.sprev[1].time < TTL) =>
        /\ ~Asked
        /\ last.sret = last.sprev[1].ret

\* C3 amended: a search call made less than one hour after the call with
\* the same key that last went to the network sends no request and returns
\* the sequence that call returned, so the two calls (and every call between
\* them) cause one request in all.
C3_ServedFromCache ==
    (last.op = "search" /\ last.sprev # None /\ last.time - last.sprev[1].ftime < TTL) =>
        /\ ~Asked
        /\ Count(last.trace, {"search_call"}) = 1
        /\ last.sret = last.sprev[1].fret
        /\ last.sret = last.sprev[1].ret

\* A later call is served a non-empty sequence from the cache, after time
\* has passed, although the endpoint would now answer something else.
C3_Witness ==
    /\ last.op = "search" /\ last.sprev # None
    /\ last.time > last.sprev[1].ftime
    /\ last.time - last.sprev[1].ftime < TTL
    /\ last.resp # last.sprev[1].fresp
    /\ last.sret # <<>>
    /\ ~Asked

\* C10: when the call that last went to the network for a key failed (status
\* other than 200, or exception), a call with that key less than one hour
\* later returns the same empty/absent result and sends no request; a
\* request for the key is sent again only once the hour has passed.
C10_FailureMemoized ==
    (last.op \in {"search", "details"} /\ Prev # None /\ FailureResp(Prev[1].fresp)) =>
        /\ Prev[1].fret = <<>>
        /\ last.time - Prev[1].ftime < TTL => (~Asked /\ RetEmpty)
        /\ Asked => last.time - Prev[1].ftime >= TTL

\* A failure is served from the cache although the endpoint would now
\* succeed.
C10_Witness ==
    /\ last.op = "details" /\ last.dprev # None
    /\ FailureResp(last.dprev[1].fresp)
    /\ last.time - last.dprev[1].ftime < TTL
    /\ ~FailureResp(last.resp)
    /\ last.dret = None
    /\ ~Asked

\* The last operation was a render pass that ran display_artworks.
Searched == last.op = "main" /\ last.view = "results"

DetailKindsOfTrace == {"detail_call", "http_detail"}
RenderKinds == {"record", "image", "image_na", "separator"}

\* C4: when the search returns no identifier the pass shows "No artworks
\* found" and stops: no detail fetch, nothing rendered.
C4_EmptyStops ==
    (Searched /\ last.sret = <<>>) =>
        /\ Project(last.trace, {"warning"}) = <<Ev("warning", "No artworks found", 0)>>
        /\ last.trace[Len(last.trace) - 1] = Ev("warning", "No artworks found", 0)
        /\ Count(last.trace, DetailKindsOfTrace \cup {"progress", "status_text"}) = 0
        /\ Count(last.trace, RenderKinds) = 0
        /\ last.rendered = <<>>

\* The search failed, and the pass stopped at the warning.
C4_Witness ==
    /\ Searched /\ last.sret = <<>>
    /\ Count(last.trace, {"http_search"}) = 1
    /\ Count(last.trace, {"error"}) = 1
    /\ Count(last.trace, {"warning"}) = 1

\* The detail endpoint gives, for this identifier, a record with a present
\* and non-empty primaryImage.
Qualifies(id) ==
    LET resp == server.detail[id]
    IN  /\ resp.kind = "response" /\ resp.status = 200 /\ resp.valid
        /\ "primaryImage" \in DOMAIN resp.json
        /\ resp.json["primaryImage"] # ""

\* A fetch returned a record with a present and non-empty primaryImage.
GotImage(f) ==
    /\ f # None
    /\ "primaryImage" \in DOMAIN f[1]
    /\ f[1]["primaryImage"] # ""

\* C5: the records rendered are, in search order, those of the first six
\* identifiers whose fetch gave a record with a non-empty primaryImage; when
\* there is none the pass shows "No artworks with images found." and renders
\* nothing.
C5_RenderedSet ==
    (Searched /\ last.sret # <<>>) =>
        LET first6 == FirstN(last.sret, 6)
            good == SelectSeq(first6, Qualifies)
            kept == SelectSeq(last.fetched, GotImage)
        IN  /\ Len(last.fetched) = Len(first6)
            /\ last.rendered = [i \in 1..Len(good) |-> server.detail[good[i]].json]
            /\ last.rendered = [i \in 1..Len(kept) |-> kept[i][1]]
            /\ Count(last.trace, {"record"}) = Len(last.rendered)
            /\ Count(last.trace, {"image"}) = Len(last.rendered)
            /\ Count(last.trace, {"image_na"}) = 0
            /\ last.rendered = <<>> =>
                  /\ Project(last.trace, {"warning"}) =
                        <<Ev("warning", "No artworks with images found", 0)>>
                  /\ Count(last.trace, RenderKinds) = 0
            /\ last.rendered # <<>> => Count(last.trace, {"warning"}) = 0

\* Some of the records fetched are rendered and some are dropped.
C5_Witness ==
    /\ Searched
    /\ Len(last.rendered) >= 1
    /\ Len(last.rendered) < Len(last.fetched)
    /\ \E i \in 1..Len(last.fetched) :
          last.fetched[i] # None /\ ~GotImage(last.fetched[i])

\* All records fetched lack an image.
C5_WitnessNone ==
    /\ Searched /\ last.sret # <<>> /\ last.rendered = <<>>
    /\ \A i \in 1..Len(last.fetched) : last.fetched[i] # None

PresetTerm(click) ==
    IF click = "flower_btn" THEN "flower" ELSE "Chinese figure with bird"

\* C7: the session search term is absent at the end of every pass; a pass
\* with a preset press runs exactly one search, for the preset term; a pass
\* without one and with a non-empty text field runs exactly one search, for
\* the text, whether or not Search was pressed; the static view is rendered
\* exactly in the other passes, which run no search.
C7_RenderPass ==
    /\ "search_term" \notin DOMAIN session
    /\ last.op = "main" =>
          LET preset == last.click \in {"flower_btn", "chinese_bird_btn"}
              free == ~preset /\ last.text # ""
              searches == Project(last.trace, {"search_call"})
          IN  /\ preset => searches = <<Ev("search_call", PresetTerm(last.click), 20)>>
              /\ free => searches = <<Ev("search_call", last.text, 20)>>
              /\ (~preset /\ ~free) => searches = <<>>
              /\ Count(last.trace, {"static"}) = (IF ~preset /\ ~free THEN 1 ELSE 0)
              /\ (last.view = "static") <=> (~preset /\ ~free)

\* A preset press with a non-empty text field: the preset term is searched.
C7_Witness ==
    /\ last.op = "main" /\ last.click = "chinese_bird_btn" /\ last.text # ""
    /\ last.query = "Chinese figure with bird"
    /\ "search_term" \notin DOMAIN session

\* C8: for n >= 1 identifiers the pass makes one search call, then min(n, 6)
\* detail fetches, for the first six identifiers in order, each followed by
\* the progress update (i+1)/6 and the pause; nothing else is fetched.
C8_FetchSequence ==
    (Searched /\ Len(last.sret) >= 1) =>
        LET m == Min(Len(last.sret), 6)
            expected == [j \in 1..(1 + 3 * m) |->
                IF j = 1 THEN Ev("search_call", last.query, 20)
                ELSE LET i == (j - 2) \div 3
                         r == (j - 2) % 3
                     IN  CASE r = 0 -> Ev("detail_call", "", last.sret[i + 1])
                           [] r = 1 -> Ev("progress", "", i + 1)
                           [] OTHER -> Ev("sleep", "", 0)]
        IN  /\ Project(last.trace, {"search_call", "detail_call", "progress", "sleep"}) = expected
            /\ Count(last.trace, {"detail_call"}) = m
            /\ \A k \in 1..Len(last.trace) :
                  /\ last.trace[k].e = "progress" => last.trace[k].n <= ProgressDen
                  /\ last.trace[k].e = "http_detail" =>
                        /\ \E i \in 1..m : last.sret[i] = last.trace[k].n
                        /\ last.trace[k - 1] = Ev("detail_call", "", last.trace[k].n)

\* The search returned more than six identifiers; six were fetched.
C8_Witness ==
    /\ Searched /\ Len(last.sret) > 6
    /\ Count(last.trace, {"detail_call"}) = 6
    /\ Count(last.trace, {"http_detail"}) >= 1
    /\ \E i \in 7..Len(last.sret) : \A j \in 1..6 : last.sret[i] # last.sret[j]

\* C9: when k >= 1 records are rendered a separator follows each record but
\* the last: k-1 separators, none after the final record.
C9_Separators ==
    (Searched /\ Len(last.rendered) >= 1) =>
        LET k == Len(last.rendered)
        IN  /\ Count(last.trace, {"separator"}) = k - 1
            /\ Project(last.trace, {"record", "separator"}) =
                  [j \in 1..(2 * k - 1) |->
                      IF j % 2 = 1 THEN Ev("record", "", (j - 1) \div 2)
                      ELSE Ev("separator", "", (j \div 2) - 1)]

\* Several records are rendered.
C9_Witness ==
    /\ Searched /\ Len(last.rendered) >= 2
    /\ Count(last.trace, {"separator"}) = Len(last.rendered) - 1
====
